---- MODULE Spec2Model ----
(***************************************************************************)
(* WattWise AI: the workload allocator (backend/scheduler/allocator.py).   *)
(*                                                                         *)
(* Units.  The program computes with Python floats; the model computes     *)
(* with exact integers and exact rationals [num, den] in lowest terms:     *)
(*   money      in dollars: electricity_cost 0.15 is 3/20;                 *)
(*   emissions  in kilograms of CO2;                                       *)
(*   power      in watts, durations in whole hours, memory in whole GB;    *)
(*   time       in minutes since the first call.                           *)
(* An Optional field is <<>> for None and <<v>> for a value v.             *)
(***************************************************************************)
EXTENDS Integers, Sequences, FiniteSets, TLC

--------------------------------------------------------------------------
(* Bounds of the model                                                     *)

\* the largest count a request asks of one GPU model
MaxCount == 2
\* the largest number of rows of the regions table
MaxRegions == 2
\* the largest number of schedule_workload calls in one behaviour
MaxCalls == 2
\* the longest estimated_duration_hours the estimators are called with
MaxHours == 3

--------------------------------------------------------------------------
(* Exact rationals                                                         *)

RECURSIVE Gcd(_, _)
Gcd(a, b) == IF b = 0 THEN a ELSE Gcd(b, a % b)

Abs(x) == IF x < 0 THEN -x ELSE x

\* n/d in lowest terms with a positive denominator (d # 0)
Rat(n, d) ==
    LET g == Gcd(Abs(n), Abs(d))
        s == IF d < 0 THEN -1 ELSE 1
    IN  [num |-> s * (n \div g), den |-> s * (d \div g)]

RInt(n) == [num |-> n, den |-> 1]
RAdd(x, y) == Rat(x.num * y.den + y.num * x.den, x.den * y.den)
RSub(x, y) == Rat(x.num * y.den - y.num * x.den, x.den * y.den)
RMul(x, y) == Rat(x.num * y.num, x.den * y.den)
\* y # 0
RDiv(x, y) == Rat(x.num * y.den, x.den * y.num)
RLess(x, y) == x.num * y.den < y.num * x.den
RLeq(x, y) == x.num * y.den <= y.num * x.den
RMax(x, y) == IF RLess(x, y) THEN y ELSE x
RMin(x, y) == IF RLess(y, x) THEN y ELSE x

--------------------------------------------------------------------------
(* Optional values and Python truthiness                                   *)

None == <<>>
Some(v) == <<v>>
\* `x or 0` of a number
OrZero(x) == IF x = None THEN 0 ELSE x[1]
\* `if x:` of an Optional number: None and 0 are false
TruthyNum(x) == x # None /\ x[1] # 0
\* `if x:` of an Optional float held as a rational
TruthyRat(x) == x # None /\ x[1].num # 0
\* `if x:` of an Optional list: None and the empty list are false
TruthyList(x) == x # None /\ Len(x[1]) > 0
\* `e in xs` of a list
InList(e, xs) == \E i \in 1..Len(xs) : xs[i] = e
\* dict.get(key, 0)
Get(d, key) == IF key \in DOMAIN d THEN d[key] ELSE 0

\* the sum of f[k] over the keys in S
RECURSIVE SumOver(_, _)
SumOver(f, S) ==
    IF S = {} THEN 0
    ELSE LET k == CHOOSE x \in S : TRUE IN f[k] + SumOver(f, S \ {k})

--------------------------------------------------------------------------
(* WorkloadAllocator.__init__: the four weights, in tenths                 *)

\* the green energy term left out of the composite score
weight_green_energy_dropped == Rat(0, 10)
weight_green_energy == Rat(4, 10)
weight_cost == Rat(3, 10)
weight_availability == Rat(2, 10)
weight_latency == Rat(1, 10)

\* self.weight_green_energy, self.weight_cost, self.weight_availability and
\* self.weight_latency of the one WorkloadAllocator every call goes through
VARIABLE weights

\* the attributes __init__ sets
InitialWeights ==
    [green_energy |-> weight_green_energy, cost |-> weight_cost,
     availability |-> weight_availability, latency |-> weight_latency]

\* the placeholder latency_score of _calculate_region_score
latency_score == Rat(8, 10)
\* the cost that scores zero: "Normalize against $0.25/kWh"
cost_normalizer == Rat(25, 100)
\* $0.001 per GB per hour, $0.05 per core per hour
memory_rate == Rat(1, 1000)
cpu_rate == Rat(5, 100)
\* 100W base
base_power == 100

--------------------------------------------------------------------------
(* Cost and emissions estimators                                           *)

\* the if/elif chain of _calculate_hourly_cost: the multiplier one GPU adds
\* a chain with a fourth branch, billing H100 at 4
GpuCostRate_h100_billed(gpu_type) ==
    CASE gpu_type = "A100" -> 3
      [] gpu_type = "V100" -> 2
      [] gpu_type = "T4" -> 1
      [] gpu_type = "H100" -> 4
      [] OTHER -> 0

GpuCostRate(gpu_type) ==
    CASE gpu_type = "A100" -> 3
      [] gpu_type = "V100" -> 2
      [] gpu_type = "T4" -> 1
      [] OTHER -> 0

\* a chain that falls back to the watts of a T4 for an unknown model
GpuPowerWatts_default_t4(gpu_type) ==
    CASE gpu_type = "A100" -> 400
      [] gpu_type = "V100" -> 300
      [] OTHER -> 70

\* the if/elif chain of _calculate_emissions: the watts one GPU adds
GpuPowerWatts(gpu_type) ==
    CASE gpu_type = "A100" -> 400
      [] gpu_type = "V100" -> 300
      [] gpu_type = "T4" -> 70
      [] OTHER -> 0

\* a critical workload billed twice the electricity price
_calculate_hourly_cost_priority_surcharge(region, request) ==
    LET reqs == request.gpu_requirements
        base_cost == IF request.priority = "critical"
                     THEN RMul(RInt(2), region.electricity_cost)
                     ELSE region.electricity_cost
        gpu_multiplier ==
            1 + SumOver([t \in DOMAIN reqs |-> reqs[t] * GpuCostRate(t)], DOMAIN reqs)
        memory_cost == RMul(RInt(OrZero(request.memory_gb)), memory_rate)
        cpu_cost == RMul(RInt(OrZero(request.cpu_cores)), cpu_rate)
    IN  RAdd(RAdd(RMul(base_cost, RInt(gpu_multiplier)), memory_cost), cpu_cost)

\* dollars per hour, a rational
_calculate_hourly_cost(region, request) ==
    LET base_cost == region.electricity_cost
        reqs == request.gpu_requirements
        gpu_multiplier ==
            1 + SumOver([t \in DOMAIN reqs |-> reqs[t] * GpuCostRate(t)], DOMAIN reqs)
        memory_cost == RMul(RInt(OrZero(request.memory_gb)), memory_rate)
        cpu_cost == RMul(RInt(OrZero(request.cpu_cores)), cpu_rate)
    IN  RAdd(RAdd(RMul(base_cost, RInt(gpu_multiplier)), memory_cost), cpu_cost)

\* one hour too many billed
_calculate_cost_extra_hour(region, request) ==
    LET hourly_cost == _calculate_hourly_cost(region, request)
    IN  RMul(hourly_cost, RInt(request.estimated_duration_hours + 1))

\* dollars, a rational
_calculate_cost(region, request) ==
    LET hourly_cost == _calculate_hourly_cost(region, request)
    IN  RMul(hourly_cost, RInt(request.estimated_duration_hours))

\* the emissions of one hour, whatever the duration
_calculate_emissions_per_hour(region, request) ==
    LET reqs == request.gpu_requirements
        power ==
            base_power
            + SumOver([t \in DOMAIN reqs |-> reqs[t] * GpuPowerWatts(t)], DOMAIN reqs)
    IN  RMul(Rat(power, 1000), Rat(region.carbon_intensity, 1000))

\* `carbon_intensity // 1000` written for `carbon_intensity / 1000`
_calculate_emissions_floor_division(region, request) ==
    LET reqs == request.gpu_requirements
        power ==
            base_power
            + SumOver([t \in DOMAIN reqs |-> reqs[t] * GpuPowerWatts(t)], DOMAIN reqs)
        total_energy_kwh ==
            RMul(Rat(power, 1000), RInt(request.estimated_duration_hours))
    IN  RMul(total_energy_kwh, RInt(region.carbon_intensity \div 1000))

\* kilograms of CO2, a rational
_calculate_emissions(region, request) ==
    LET reqs == request.gpu_requirements
        power ==
            base_power
            + SumOver([t \in DOMAIN reqs |-> reqs[t] * GpuPowerWatts(t)], DOMAIN reqs)
        total_energy_kwh ==
            RMul(Rat(power, 1000), RInt(request.estimated_duration_hours))
        emissions_kg == RMul(total_energy_kwh, Rat(region.carbon_intensity, 1000))
    IN  emissions_kg

--------------------------------------------------------------------------
(* Feasibility filter                                                      *)

\* `in` written for `not in`
FailsPreferredRegions_inverted(region, request) ==
    /\ TruthyList(request.preferred_regions)
    /\ InList(region.region_id, request.preferred_regions[1])

\* lines 147-148: the region is not in a given list of preferred regions
FailsPreferredRegions(region, request) ==
    /\ TruthyList(request.preferred_regions)
    /\ ~InList(region.region_id, request.preferred_regions[1])

\* `available <= required_count` written for `available < required_count`
FailsGpu_off_by_one(region, request) ==
    LET reqs == request.gpu_requirements
    IN  \E gpu_type \in DOMAIN reqs :
            Get(region.gpu_availability, gpu_type) <= reqs[gpu_type]

\* lines 150-155: a required GPU model is short
FailsGpu(region, request) ==
    LET reqs == request.gpu_requirements
    IN  \E gpu_type \in DOMAIN reqs :
            Get(region.gpu_availability, gpu_type) < reqs[gpu_type]

\* lines 157-159
FailsMemory(region, request) ==
    /\ TruthyNum(request.memory_gb)
    /\ region.memory_availability_gb < request.memory_gb[1]

\* the comparison of the CPU rule reversed
FailsCpu_reversed(region, request) ==
    /\ TruthyNum(request.cpu_cores)
    /\ region.cpu_availability > request.cpu_cores[1]

\* lines 161-163
FailsCpu(region, request) ==
    /\ TruthyNum(request.cpu_cores)
    /\ region.cpu_availability < request.cpu_cores[1]

\* the cap compared with the electricity price, not with the hourly cost
FailsCost_base_price(region, request) ==
    /\ TruthyRat(request.max_cost_per_hour)
    /\ RLess(request.max_cost_per_hour[1], region.electricity_cost)

\* lines 165-169
FailsCost(region, request) ==
    /\ TruthyRat(request.max_cost_per_hour)
    /\ RLess(request.max_cost_per_hour[1], _calculate_hourly_cost(region, request))

\* lines 171-175
FailsEmissions(region, request) ==
    /\ TruthyRat(request.max_carbon_emissions)
    /\ RLess(request.max_carbon_emissions[1], _calculate_emissions(region, request))

_meets_requirements(region, request) ==
    IF FailsPreferredRegions(region, request) THEN FALSE
    ELSE IF FailsGpu(region, request) THEN FALSE
    ELSE IF FailsMemory(region, request) THEN FALSE
    ELSE IF FailsCpu(region, request) THEN FALSE
    ELSE IF FailsCost(region, request) THEN FALSE
    ELSE IF FailsEmissions(region, request) THEN FALSE
    ELSE TRUE

--------------------------------------------------------------------------
(* Region scorer.  A float result is [raised |-> FALSE, value |-> r]; a    *)
(* call that ends in ZeroDivisionError is [raised |-> TRUE, value |-> 0].  *)

Returned(r) == [raised |-> FALSE, value |-> r]
ZeroDivisionError == [raised |-> TRUE, value |-> RInt(0)]

\* the sum of the rationals f[k] over the keys in S
RECURSIVE RSumOver(_, _)
RSumOver(f, S) ==
    IF S = {} THEN RInt(0)
    ELSE LET k == CHOOSE x \in S : TRUE IN RAdd(f[k], RSumOver(f, S \ {k}))

_calculate_availability_score(region, request) ==
    LET reqs == request.gpu_requirements
        \* the models the loop body runs for: `if available > 0`
        stocked == {t \in DOMAIN reqs : Get(region.gpu_availability, t) > 0}
        score(t) ==
            RMin(RInt(1), Rat(Get(region.gpu_availability, t), reqs[t] * 2))
        total_score ==
            RSumOver([t \in stocked |-> RMul(score(t), RInt(reqs[t]))], stocked)
        total_weight == SumOver([t \in stocked |-> reqs[t]], stocked)
    IN  IF DOMAIN reqs = {} THEN Returned(RInt(1))
        ELSE IF \E t \in stocked : reqs[t] * 2 = 0 THEN ZeroDivisionError
        ELSE IF total_weight > 0
             THEN Returned(RDiv(total_score, RInt(total_weight)))
             ELSE Returned(RInt(0))

\* the green energy score left on its 0-100 scale
GreenScore_unnormalized(region) == RInt(region.green_energy_score)

\* line 121: green energy score (0-100, normalize to 0-1)
GreenScore(region) == Rat(region.green_energy_score, 100)

\* line 124: lower cost = higher score
CostScore(region) ==
    RMax(RInt(0), RSub(RInt(1), RDiv(region.electricity_cost, cost_normalizer)))

_calculate_region_score(region, request) ==
    IF ~_meets_requirements(region, request) THEN Returned(RInt(0))
    ELSE
      LET green_score == GreenScore(region)
          cost_score == CostScore(region)
          availability_score == _calculate_availability_score(region, request)
          composite_score ==
              RAdd(RAdd(RAdd(RMul(weights.green_energy, green_score),
                             RMul(weights.cost, cost_score)),
                        RMul(weights.availability, availability_score.value)),
                   RMul(weights.latency, latency_score))
      IN  IF availability_score.raised THEN ZeroDivisionError
          ELSE Returned(composite_score)

--------------------------------------------------------------------------
(* The values the model draws regions and requests from                    *)

GpuTypes == {"A100", "V100", "T4", "H100"}

\* the empty dict
EmptyDict == [k \in {} |-> 0]

\* gpu_requirements: no model, one model, or one of two pairs of models,
\* each with a count in 0..MaxCount
GpuRequirementSets ==
    {EmptyDict}
    \cup UNION {[{t} -> 0..MaxCount] : t \in GpuTypes}
    \cup [{"A100", "V100"} -> 0..MaxCount]
    \cup [{"T4", "H100"} -> 0..MaxCount]

\* gpu_availability columns
Inventories ==
    { EmptyDict,
      [t \in {"A100", "V100", "T4"} |->
          CASE t = "A100" -> 1 [] t = "V100" -> 2 [] OTHER -> 4],
      [t \in {"V100", "H100"} |-> IF t = "V100" THEN 1 ELSE 3],
      [t \in {"A100", "V100", "T4"} |->
          CASE t = "A100" -> 4 [] t = "V100" -> 0 [] OTHER -> 1] }

Region(id, green, carbon, cost, gpus, cpus, memory, active) ==
    [region_id |-> id, name |-> id,
     green_energy_score |-> green, renewable_percentage |-> 0,
     carbon_intensity |-> carbon,
     electricity_cost |-> cost, gpu_availability |-> gpus,
     cpu_availability |-> cpus, memory_availability_gb |-> memory,
     is_active |-> active]

\* renewable_percentage, a column the scorer does not read
Renewable(region, percentage) ==
    [region EXCEPT !.renewable_percentage = percentage]

\* the regions the filter and the scorer are applied to
FilterRegions ==
    [region_id : {"us-west-1"},
     name : {"us-west-1"},
     green_energy_score : {0, 100},
     renewable_percentage : {0},
     carbon_intensity : {0, 150},
     electricity_cost : {RInt(0), Rat(15, 100), Rat(30, 100)},
     gpu_availability : Inventories,
     cpu_availability : {4},
     memory_availability_gb : {16},
     is_active : {TRUE}]

\* the requests the filter and the scorer are applied to; every one passes
\* the validation of WorkloadScheduleRequest (the gt=0 fields)
FilterRequests ==
    [name : {"Test Workload"},
     workload_type : {"llm_training"},
     priority : {"medium"},
     deadline : {None},
     estimated_duration_hours : {1, 2},
     gpu_requirements : GpuRequirementSets,
     memory_gb : {None, Some(8), Some(32)},
     cpu_cores : {None, Some(2), Some(8)},
     preferred_regions :
         {None, Some(<<>>), Some(<<"us-west-1">>), Some(<<"eu-north-1">>)},
     max_cost_per_hour : {None, Some(Rat(1, 100)), Some(RInt(1))},
     max_carbon_emissions : {None, Some(Rat(5, 100))}]

\* the regions the estimators are applied to: electricity from free to the
\* price of the first test region, carbon intensity from none to its value
EstimateRegions ==
    { [Region("us-west-1", 85, carbon, cost, gpus, 100, 500, TRUE)
          EXCEPT !.renewable_percentage = 75] :
        carbon \in {0, 80, 150},
        cost \in {RInt(0), Rat(1, 2000), Rat(1, 1600), Rat(1, 200), Rat(15, 100)},
        gpus \in {EmptyDict,
                  [t \in {"A100", "V100", "T4"} |->
                      CASE t = "A100" -> 10 [] t = "V100" -> 20 [] OTHER -> 50]} }

\* the requests the estimators are applied to
EstimateRequests ==
    [name : {"Test Workload"},
     workload_type : {"llm_training"},
     priority : {"medium"},
     deadline : {None},
     estimated_duration_hours : 1..MaxHours,
     gpu_requirements :
         {EmptyDict, [t \in {"A100"} |-> 5], [t \in {"V100"} |-> 1],
          [t \in {"T4", "H100"} |-> IF t = "T4" THEN 2 ELSE 1]},
     memory_gb : {None, Some(16)},
     cpu_cores : {None, Some(4)},
     preferred_regions : {None},
     max_cost_per_hour : {None, Some(Rat(1, 100))},
     max_carbon_emissions : {None}]

--------------------------------------------------------------------------
(* The regions table and the requests of the scheduling specification      *)

GpuDict(a100, v100, t4) ==
    [t \in {"A100", "V100", "T4"} |->
        CASE t = "A100" -> a100 [] t = "V100" -> v100 [] OTHER -> t4]

\* the rows the regions table is filled from: the two regions of the test
\* database, a twin of the first under another identifier, an inactive
\* region that would outscore them all, and a region at the floor of every
\* sub-score
RegionPool ==
    { Renewable(Region("us-west-1", 85, 150, Rat(15, 100), GpuDict(10, 20, 50),
                       100, 500, TRUE), 75),
      Renewable(Region("eu-north-1", 95, 80, Rat(10, 100), GpuDict(5, 15, 30),
                       80, 400, TRUE), 90),
      Renewable(Region("ap-south-1", 85, 150, Rat(15, 100), GpuDict(10, 20, 50),
                       100, 500, TRUE), 75),
      Region("sa-east-1", 100, 0, RInt(0), GpuDict(100, 100, 100), 1000, 1000, FALSE),
      Region("af-south-1", 0, 700, Rat(30, 100),
             [t \in {"T4", "H100"} |-> IF t = "T4" THEN 1 ELSE 2], 2, 8, TRUE) }

\* region_id is unique in the table
UniqueIds(table) ==
    \A i, j \in 1..Len(table) : table[i].region_id = table[j].region_id => i = j

Catalogs ==
    {table \in UNION {[1..n -> RegionPool] : n \in 0..MaxRegions} : UniqueIds(table)}

Request(hours, gpus, memory, cpus, preferred, max_cost, max_carbon) ==
    [name |-> "Test Workload", workload_type |-> "llm_training",
     priority |-> "medium", deadline |-> None,
     estimated_duration_hours |-> hours, gpu_requirements |-> gpus,
     memory_gb |-> memory, cpu_cores |-> cpus, preferred_regions |-> preferred,
     max_cost_per_hour |-> max_cost, max_carbon_emissions |-> max_carbon]

\* the advisory fields of a request: name, workload_type, priority, deadline
Advisory(req, name, workload_type, priority, deadline) ==
    [req EXCEPT !.name = name, !.workload_type = workload_type,
                !.priority = priority, !.deadline = deadline]

One(t, n) == [k \in {t} |-> n]

\* the requests sent to schedule_workload: the requests of the tests, the
\* scenarios of the specification, a count of zero, a GPU model the
\* estimators do not know, and preferred lists
SchedRequests ==
    { Request(2, One("V100", 1), Some(16), Some(4), None, Some(RInt(15)), Some(RInt(5))),
      Request(1, One("T4", 1), Some(8), Some(2), None, None, None),
      Request(1, One("V100", 100), None, None, None, None, None),
      Request(1, EmptyDict, None, None, None, None, None),
      Request(1, One("A100", 5), None, None, None, Some(Rat(1, 100)), None),
      Request(1, One("V100", 0), None, None, None, None, None),
      Request(1, One("H100", 0), None, None, None, None, None),
      Request(1, One("H100", 1), None, None, None, None, None),
      Request(1, EmptyDict, None, None, Some(<<>>), None, None),
      Request(1, One("T4", 1), None, None, Some(<<"ap-south-1", "af-south-1">>),
              None, None) }

\* the second test region, a twin of it with a lower green energy score
\* under another identifier, the first test region and an inactive region
GreenPool ==
    { Renewable(Region("eu-north-1", 95, 80, Rat(10, 100), GpuDict(5, 15, 30),
                       80, 400, TRUE), 90),
      Renewable(Region("eu-north-2", 60, 80, Rat(10, 100), GpuDict(5, 15, 30),
                       80, 400, TRUE), 90),
      Renewable(Region("us-west-1", 85, 150, Rat(15, 100), GpuDict(10, 20, 50),
                       100, 500, TRUE), 75),
      Region("sa-east-1", 100, 0, RInt(0), GpuDict(100, 100, 100), 1000, 1000, FALSE) }

DecisionCatalogs ==
    {table \in UNION {[1..n -> GreenPool] : n \in 0..MaxRegions} : UniqueIds(table)}

\* WorkloadType, WorkloadPriority, and deadlines in minutes
WorkloadTypes == {"llm_training", "fine_tuning"}
WorkloadPriorities == {"low", "medium", "high", "critical"}
Deadlines == {None, Some(10)}

\* requests with the advisory fields at their defaults and away from them
DecisionRequests ==
    LET plain ==
          { Request(1, One("T4", 1), None, None, None, None, None),
            Request(2, One("V100", 1), Some(16), Some(4), None,
                    Some(RInt(15)), Some(RInt(5))),
            Request(1, One("V100", 100), None, None, None, None, None),
            Request(1, One("A100", 1), None, None, Some(<<"eu-north-2", "us-west-1">>),
                    None, None) }
    IN  plain \cup {Advisory(req, "Nightly", "fine_tuning", "critical", Some(10)) :
                        req \in plain}

--------------------------------------------------------------------------
VARIABLES
    regions,        \* the rows of the regions table, in iteration order
    workloads,      \* the rows of the workloads table, in insertion order
    clock,          \* datetime.now(), in minutes
    calls,          \* the schedule_workload calls made so far
    request,        \* the request of the latest schedule_workload call
    region_scores,  \* the list region_scores of that call, after its sort
    response,       \* what that call returned or raised
    arg_region,     \* the region a helper of the allocator is called with
    arg_request,    \* the request it is called with
    helper,         \* the helper called: "" before the call
    ret,            \* what it returned (a score may have raised)
    history,        \* the helper calls made on them, with their results
    arg_region_id,  \* the identifier get_region_details is called with
    details,        \* what get_region_details returned
    http,           \* the answer of the route GET /regions/{region_id}/details
    arg_filters,    \* the status and region_id get_workloads was called with
    listing,        \* the summaries get_workloads returned
    pc,             \* where each concurrent schedule_workload call stands
    session,        \* the Region objects the query of each call loaded
    local,          \* the request and the local variables of each call
    answer          \* what each call returned or raised

sched_vars ==
    <<regions, workloads, clock, calls, request, region_scores, response, weights>>
filter_vars == <<arg_region, arg_request, helper, ret>>
call_vars == <<pc, session, local, answer>>
lookup_vars ==
    <<history, arg_region_id, details, http, arg_filters, listing, call_vars>>
vars == <<sched_vars, filter_vars, lookup_vars>>

--------------------------------------------------------------------------
(* schedule_workload                                                       *)

\* a query that forgets the is_active filter
ActiveRegions_unfiltered(table) == table

\* db.query(Region).filter(Region.is_active == True).all()
ActiveRegions(table) == SelectSeq(table, LAMBDA r : r.is_active)

\* `if score >= 0`
Positive_or_zero(score) == RLeq(RInt(0), score.value)

\* `if score > 0`
Positive(score) == RLess(RInt(0), score.value)

\* lines 49-52: every active region with its score, in iteration order
RECURSIVE ScoreLoop(_, _)
ScoreLoop(active, req) ==
    IF active = <<>> THEN <<>>
    ELSE <<[region |-> Head(active),
            score |-> _calculate_region_score(Head(active), req)]>>
         \o ScoreLoop(Tail(active), req)

\* the pairs (region, score) the loop appends: those with a score > 0
Survivors(scored) ==
    LET kept == SelectSeq(scored, LAMBDA p : Positive(p.score))
    IN  [i \in 1..Len(kept) |-> [region |-> kept[i].region, score |-> kept[i].score.value]]

\* a descending sort that puts the later of two equal scores first
RECURSIVE InsertByScore_unstable(_, _)
InsertByScore_unstable(pair, sorted) ==
    IF sorted = <<>> THEN <<pair>>
    ELSE IF RLeq(Head(sorted).score, pair.score) THEN <<pair>> \o sorted
    ELSE <<Head(sorted)>> \o InsertByScore_unstable(pair, Tail(sorted))

\* list.sort(key=score, reverse=True) is stable: one pair goes before the
\* first pair with a strictly lower score
RECURSIVE InsertByScore(_, _)
InsertByScore(pair, sorted) ==
    IF sorted = <<>> THEN <<pair>>
    ELSE IF RLess(Head(sorted).score, pair.score) THEN <<pair>> \o sorted
    ELSE <<Head(sorted)>> \o InsertByScore(pair, Tail(sorted))

RECURSIVE SortByScore(_)
SortByScore(pairs) ==
    IF pairs = <<>> THEN <<>>
    ELSE InsertByScore(pairs[Len(pairs)], SortByScore(SubSeq(pairs, 1, Len(pairs) - 1)))

\* `raise Exception(detail)`, and the ZeroDivisionError of the scorer
Raised(detail) == [kind |-> "raised", detail |-> detail]
NoActiveRegions == Raised("No active regions available")

\* the second failure raised with the message of the first
NoRegionsMeet_same_message == Raised("No active regions available")
NoRegionsMeet == Raised("No regions meet the workload requirements")
DivisionByZero == Raised("division by zero")
NoResponse == [kind |-> "none", detail |-> ""]

\* main.py, POST /jobs/schedule: the result, or HTTP 500 with str(e)
HttpScheduleWorkload(resp) ==
    IF resp.kind = "raised"
    THEN [status_code |-> 500, detail |-> resp.detail]
    ELSE [status_code |-> 200, detail |-> ""]

\* timedelta(minutes=5), timedelta(hours=h), in minutes
StartBuffer == 5
\* timedelta(minutes=h) written for timedelta(hours=h)
Hours_as_minutes(h) == h
Hours(h) == 60 * h

\* f"{x:.nf}": x rounded to n decimals (ties to even), as [digits, units]
\* with units counting 10^-digits; x >= 0
Fixed(x, digits) ==
    LET n == x.num * 10 ^ digits
        q == n \div x.den
        r == n % x.den
        units == IF 2 * r > x.den THEN q + 1
                 ELSE IF 2 * r < x.den THEN q
                 ELSE IF q % 2 = 0 THEN q ELSE q + 1
    IN  [digits |-> digits, units |-> units]

\* one sentence of the reasoning: the sentence and the values formatted in it
Clause(sentence, values) == [sentence |-> sentence, values |-> values]

\* thresholds of _generate_reasoning
ExcellentGreen == 80
GoodGreen == 60
LowCost == Rat(12, 100)
LowCarbon == 150

\* `if` written for `elif`: a score of 80 or more gets both green sentences
_generate_reasoning_if_for_elif(selected_region, req, all_scores) ==
    LET reqs == req.gpu_requirements
        green == selected_region.green_energy_score
        green_values == <<Fixed(RInt(green), 1),
                          Fixed(RInt(selected_region.renewable_percentage), 1)>>
        gpu_info == [gpu_type \in DOMAIN reqs |->
                        Get(selected_region.gpu_availability, gpu_type)]
    IN  <<Clause("Selected", <<selected_region.name>>)>>
        \o (IF green >= ExcellentGreen
               THEN <<Clause("Excellent green energy score", green_values)>>
            ELSE <<>>)
        \o (IF green >= GoodGreen
               THEN <<Clause("Good green energy score", green_values)>>
            ELSE <<>>)
        \o (IF RLeq(selected_region.electricity_cost, LowCost)
               THEN <<Clause("Low electricity cost",
                             <<Fixed(selected_region.electricity_cost, 3)>>)>>
            ELSE <<>>)
        \o (IF selected_region.carbon_intensity <= LowCarbon
               THEN <<Clause("Low carbon intensity",
                             <<Fixed(RInt(selected_region.carbon_intensity), 0)>>)>>
            ELSE <<>>)
        \o (IF DOMAIN reqs # {}
               THEN <<Clause("Sufficient resources", <<gpu_info>>)>>
            ELSE <<>>)

\* " ".join(reasoning_parts), kept as the sequence of its sentences; the
\* f"{available} {gpu_type} GPUs available" items are kept as a function of
\* the GPU model
_generate_reasoning(selected_region, req, all_scores) ==
    LET reqs == req.gpu_requirements
        green == selected_region.green_energy_score
        green_values == <<Fixed(RInt(green), 1),
                          Fixed(RInt(selected_region.renewable_percentage), 1)>>
        gpu_info == [gpu_type \in DOMAIN reqs |->
                        Get(selected_region.gpu_availability, gpu_type)]
    IN  <<Clause("Selected", <<selected_region.name>>)>>
        \o (IF green >= ExcellentGreen
               THEN <<Clause("Excellent green energy score", green_values)>>
            ELSE IF green >= GoodGreen
               THEN <<Clause("Good green energy score", green_values)>>
            ELSE <<>>)
        \o (IF RLeq(selected_region.electricity_cost, LowCost)
               THEN <<Clause("Low electricity cost",
                             <<Fixed(selected_region.electricity_cost, 3)>>)>>
            ELSE <<>>)
        \o (IF selected_region.carbon_intensity <= LowCarbon
               THEN <<Clause("Low carbon intensity",
                             <<Fixed(RInt(selected_region.carbon_intensity), 0)>>)>>
            ELSE <<>>)
        \o (IF DOMAIN reqs # {}
               THEN <<Clause("Sufficient resources", <<gpu_info>>)>>
            ELSE <<>>)

\* lines 61-110: the workload row and the response for the chosen region
Decision(best_region, req, id, now, all_scores) ==
    LET estimated_start_time == now + StartBuffer
        estimated_end_time == estimated_start_time + Hours(req.estimated_duration_hours)
    IN  [kind |-> "returned", detail |-> "",
         workload_id |-> id,
         status |-> "scheduled",
         recommended_region |-> best_region.region_id,
         estimated_start_time |-> estimated_start_time,
         estimated_end_time |-> estimated_end_time,
         estimated_cost |-> _calculate_cost(best_region, req),
         estimated_emissions |-> _calculate_emissions(best_region, req),
         green_energy_score |-> best_region.green_energy_score,
         reasoning |-> _generate_reasoning(best_region, req, all_scores)]

\* a row left at the column default of status
WorkloadRow_default_status(decision, req) ==
    [workload_id |-> decision.workload_id,
     name |-> req.name,
     workload_type |-> req.workload_type,
     priority |-> req.priority,
     status |-> "pending",
     estimated_duration_hours |-> req.estimated_duration_hours,
     gpu_requirements |-> req.gpu_requirements,
     memory_gb |-> req.memory_gb,
     cpu_cores |-> req.cpu_cores,
     preferred_regions |-> req.preferred_regions,
     max_cost_per_hour |-> req.max_cost_per_hour,
     max_carbon_emissions |-> req.max_carbon_emissions,
     deadline |-> req.deadline,
     region_id |-> decision.recommended_region,
     estimated_start_time |-> decision.estimated_start_time,
     estimated_end_time |-> decision.estimated_end_time,
     estimated_cost |-> decision.estimated_cost,
     estimated_emissions |-> decision.estimated_emissions,
     reasoning |-> decision.reasoning]

WorkloadRow(decision, req) ==
    [workload_id |-> decision.workload_id,
     name |-> req.name,
     workload_type |-> req.workload_type,
     priority |-> req.priority,
     status |-> "scheduled",
     estimated_duration_hours |-> req.estimated_duration_hours,
     gpu_requirements |-> req.gpu_requirements,
     memory_gb |-> req.memory_gb,
     cpu_cores |-> req.cpu_cores,
     preferred_regions |-> req.preferred_regions,
     max_cost_per_hour |-> req.max_cost_per_hour,
     max_carbon_emissions |-> req.max_carbon_emissions,
     deadline |-> req.deadline,
     region_id |-> decision.recommended_region,
     estimated_start_time |-> decision.estimated_start_time,
     estimated_end_time |-> decision.estimated_end_time,
     estimated_cost |-> decision.estimated_cost,
     estimated_emissions |-> decision.estimated_emissions,
     reasoning |-> decision.reasoning]

\* a session closed without db.commit(): the added row is lost
CommittedWorkloads_rolled_back(rows, row) == rows

\* lines 96-98: db.add(workload); db.commit() appends the row to the table
CommittedWorkloads(rows, row) == Append(rows, row)

\* a commit that also reserves the GPUs of the request in the chosen region
CommittedRegions_reserving(table, decision, req) ==
    [i \in 1..Len(table) |->
        IF table[i].region_id = decision.recommended_region
        THEN [table[i] EXCEPT !.gpu_availability =
                 [t \in DOMAIN @ |-> @[t] - Get(req.gpu_requirements, t)]]
        ELSE table[i]]

\* lines 96-98: db.add(workload); db.commit() writes the new workload row
\* and no column of a region, the call having assigned none
CommittedRegions(table, decision, req) == table

\* lines 41-110: what one call answers, and its sorted region_scores
ScheduleResult(table, req, id, now) ==
    LET active == ActiveRegions(table)
        scored == ScoreLoop(active, req)
        sorted == SortByScore(Survivors(scored))
    IN  IF active = <<>>
        THEN [response |-> NoActiveRegions, region_scores |-> <<>>]
        ELSE IF \E i \in 1..Len(scored) : scored[i].score.raised
        THEN [response |-> DivisionByZero, region_scores |-> <<>>]
        ELSE IF sorted = <<>>
        THEN [response |-> NoRegionsMeet, region_scores |-> <<>>]
        ELSE [response |-> Decision(sorted[1].region, req, id, now, sorted),
              region_scores |-> sorted]

ScheduleWorkload(req) ==
    LET result == ScheduleResult(regions, req, Len(workloads) + 1, clock)
    IN  /\ calls < MaxCalls
        /\ calls' = calls + 1
        /\ request' = req
        /\ clock' = clock + 1
        /\ UNCHANGED weights
        /\ response' = result.response
        /\ region_scores' = result.region_scores
        /\ IF result.response.kind = "returned"
           THEN /\ workloads' =
                     CommittedWorkloads(workloads, WorkloadRow(result.response, req))
                /\ regions' = CommittedRegions(regions, result.response, req)
           ELSE UNCHANGED <<workloads, regions>>

--------------------------------------------------------------------------
(* get_region_details                                                      *)

\* specs.get(gpu_type, {})
_get_gpu_specs(gpu_type) ==
    CASE gpu_type = "A100" ->
           [memory_gb |-> 40, compute_capability |-> "8.0", power_watts |-> 400]
      [] gpu_type = "V100" ->
           [memory_gb |-> 16, compute_capability |-> "7.0", power_watts |-> 300]
      [] gpu_type = "T4" ->
           [memory_gb |-> 16, compute_capability |-> "7.5", power_watts |-> 70]
      [] OTHER -> EmptyDict

\* a lookup that skips the inactive regions
FirstMatch_active_only(table, region_id) ==
    LET found == SelectSeq(table, LAMBDA r : r.region_id = region_id /\ r.is_active)
    IN  IF found = <<>> THEN None ELSE Some(found[1])

\* db.query(Region).filter(Region.region_id == region_id).first()
FirstMatch(table, region_id) ==
    LET found == SelectSeq(table, LAMBDA r : r.region_id = region_id)
    IN  IF found = <<>> THEN None ELSE Some(found[1])

\* RegionDetails(...) of a row, for the columns the model holds; gpu_types
\* is kept as a function of the GPU model
RegionDetailsOf(region) ==
    [region_id |-> region.region_id,
     region_name |-> region.name,
     green_energy_score |-> region.green_energy_score,
     carbon_intensity |-> region.carbon_intensity,
     electricity_cost |-> region.electricity_cost,
     gpu_types |->
         [gpu_type \in DOMAIN region.gpu_availability |->
             [available_count |-> region.gpu_availability[gpu_type],
              specifications |-> _get_gpu_specs(gpu_type)]]]

\* Optional[RegionDetails]: None when no region matches
get_region_details(table, region_id) ==
    LET region == FirstMatch(table, region_id)
    IN  IF region = None THEN None ELSE Some(RegionDetailsOf(region[1]))

GetRegionDetails(region_id) ==
    /\ arg_region_id = ""
    /\ arg_region_id' = region_id
    /\ details' = get_region_details(regions, region_id)
    /\ UNCHANGED <<history, http, arg_filters, listing, call_vars, sched_vars,
                   filter_vars>>

\* HTTPException(status_code, detail), and str() of one
HTTPException(status_code, detail) ==
    [kind |-> "HTTPException", status_code |-> status_code, detail |-> detail]

StrOf(e) ==
    IF e.kind = "HTTPException"
    THEN <<e.status_code, ": ", e.detail>>
    ELSE <<e.detail>>

\* the JSON answer of a route that returned
Ok(body) == [status_code |-> 200, body |-> body]

\* the answer of a route that raised HTTPException
Failed(e) == [status_code |-> e.status_code, body |-> [detail |-> e.detail]]

\* nothing asked yet
NoAnswer == [status_code |-> 0, body |-> <<>>]

\* `except Exception as e: raise HTTPException(status_code=500, detail=str(e))`:
\* HTTPException is an Exception, so the handler catches the one raised in
\* its own try block too
ExceptException(e) == HTTPException(500, StrOf(e))

\* GET /regions/{region_id}/details (main.py): the body of the try block
\* returns the details or raises 404, and the except clause handles what
\* it raised
RegionDetailsRoute(table, region_id) ==
    LET found == get_region_details(table, region_id)
    IN  IF found = None
        THEN Failed(ExceptException(HTTPException(404, "Region not found")))
        ELSE Ok(found[1])

HttpGetRegionDetails(region_id) ==
    /\ arg_region_id = ""
    /\ arg_region_id' = region_id
    /\ details' = get_region_details(regions, region_id)
    /\ http' = RegionDetailsRoute(regions, region_id)
    /\ UNCHANGED <<history, arg_filters, listing, call_vars, sched_vars, filter_vars>>

\* `if status:` and `if region_id:`: None and "" are falsy
TruthyStr(opt) == opt # None /\ opt[1] # ""

\* query.filter(Workload.status == status), when the argument is truthy
FilterStatus_unconditional(rows, status) ==
    SelectSeq(rows, LAMBDA w : status # None /\ w.status = status[1])

FilterStatus(rows, status) ==
    IF TruthyStr(status)
    THEN SelectSeq(rows, LAMBDA w : w.status = status[1])
    ELSE rows

\* query.filter(Workload.region_id == region_id), when the argument is truthy
FilterRegionId(rows, region_id) ==
    IF TruthyStr(region_id)
    THEN SelectSeq(rows, LAMBDA w : w.region_id = region_id[1])
    ELSE rows

\* order_by(Workload.created_at.desc()): the latest row first
NewestFirst(rows) == [i \in 1..Len(rows) |-> rows[Len(rows) + 1 - i]]

\* WorkloadSummary(...) of a row; a scheduled workload has not started
WorkloadSummary(w) ==
    [workload_id |-> w.workload_id,
     name |-> w.name,
     workload_type |-> w.workload_type,
     status |-> w.status,
     region_id |-> w.region_id,
     start_time |-> None,
     end_time |-> None,
     estimated_cost |-> w.estimated_cost,
     actual_cost |-> None,
     estimated_emissions |-> w.estimated_emissions,
     actual_emissions |-> None]

get_workloads(rows, status, region_id) ==
    LET selected == NewestFirst(FilterRegionId(FilterStatus(rows, status), region_id))
    IN  [i \in 1..Len(selected) |-> WorkloadSummary(selected[i])]

GetWorkloads(status, region_id) ==
    /\ arg_filters = None
    /\ arg_filters' = Some([status |-> status, region_id |-> region_id])
    /\ listing' = get_workloads(workloads, status, region_id)
    /\ UNCHANGED <<history, arg_region_id, details, http, call_vars, sched_vars,
                   filter_vars>>

--------------------------------------------------------------------------
(* schedule_workload calls in progress at the same time, each with its own *)
(* database session, and a writer of the regions table                     *)

\* the calls in progress at the same time
Procs == 1..MaxCalls

\* a scorer that keeps its running weight in self.weight_latency
WeightsAfterCall_scratch(w) == [w EXCEPT !.latency = RMul(@, latency_score)]

\* lines 47-71: the loop, the sort and the estimators assign to no
\* attribute of self
WeightsAfterCall(w) == w

\* an attribute read of a Region object after db.commit(): the session was
\* made with expire_on_commit at its default, so the commit expired the
\* object and the read loads the row again
Reloaded(table, loaded) ==
    table[CHOOSE i \in 1..Len(table) : table[i].region_id = loaded.region_id]

\* line 42: the query loads the active rows into the session of the call
QueryRegions(p, req) ==
    /\ pc[p] = "idle"
    /\ session' = [session EXCEPT ![p] = ActiveRegions(regions)]
    /\ local' = [local EXCEPT ![p] = [req |-> req, result |-> NoResponse]]
    /\ IF ActiveRegions(regions) = <<>>
       THEN /\ answer' = [answer EXCEPT ![p] = NoActiveRegions]
            /\ pc' = [pc EXCEPT ![p] = "done"]
       ELSE /\ pc' = [pc EXCEPT ![p] = "queried"]
            /\ UNCHANGED answer
    /\ UNCHANGED <<sched_vars, filter_vars, history, arg_region_id, details, http,
                   arg_filters, listing>>

\* lines 47-98: the decision is computed from the loaded objects and the
\* workload row is committed
CommitDecision(p) ==
    LET result == ScheduleResult(session[p], local[p].req, Len(workloads) + 1, clock)
    IN  /\ pc[p] = "queried"
        /\ clock' = clock + 1
        /\ weights' = WeightsAfterCall(weights)
        /\ IF result.response.kind = "returned"
           THEN /\ workloads' = CommittedWorkloads(workloads,
                                     WorkloadRow(result.response, local[p].req))
                /\ local' = [local EXCEPT ![p].result = result.response]
                /\ pc' = [pc EXCEPT ![p] = "committed"]
                /\ UNCHANGED answer
           ELSE /\ answer' = [answer EXCEPT ![p] = result.response]
                /\ pc' = [pc EXCEPT ![p] = "done"]
                /\ UNCHANGED <<workloads, local>>
        /\ UNCHANGED <<regions, calls, request, region_scores, response, session,
                       filter_vars, history, arg_region_id, details, http,
                       arg_filters, listing>>

\* lines 100-110: the response is built; best_region.region_id and
\* best_region.green_energy_score are read after the commit
BuildResponse(p) ==
    LET decision == local[p].result
        best_region ==
            Reloaded(regions,
                     [region_id |-> decision.recommended_region])
    IN  /\ pc[p] = "committed"
        /\ answer' = [answer EXCEPT ![p] =
               [decision EXCEPT !.recommended_region = best_region.region_id,
                                !.green_energy_score = best_region.green_energy_score]]
        /\ pc' = [pc EXCEPT ![p] = "done"]
        /\ UNCHANGED <<sched_vars, filter_vars, session, local, history,
                       arg_region_id, details, http, arg_filters, listing>>

\* another process writes a new green_energy_score to a row of the table,
\* once
RefreshedScores == {50}

UpdateRegion(i, green) ==
    /\ i \in 1..Len(regions)
    /\ \A j \in 1..Len(regions) : regions[j].green_energy_score \notin RefreshedScores
    /\ regions' = [regions EXCEPT ![i].green_energy_score = green]
    /\ UNCHANGED <<workloads, clock, calls, request, region_scores, response,
                   weights, filter_vars, lookup_vars>>

--------------------------------------------------------------------------
(* The helpers of the allocator, called on one region and one request      *)

CallMeetsRequirements ==
    /\ helper = ""
    /\ helper' = "_meets_requirements"
    /\ ret' = _meets_requirements(arg_region, arg_request)
    /\ UNCHANGED <<arg_region, arg_request, sched_vars, lookup_vars>>

CallCalculateRegionScore ==
    /\ helper = ""
    /\ helper' = "_calculate_region_score"
    /\ ret' = _calculate_region_score(arg_region, arg_request)
    /\ UNCHANGED <<arg_region, arg_request, sched_vars, lookup_vars>>

CallCalculateAvailabilityScore ==
    /\ helper = ""
    /\ helper' = "_calculate_availability_score"
    /\ ret' = _calculate_availability_score(arg_region, arg_request)
    /\ UNCHANGED <<arg_region, arg_request, sched_vars, lookup_vars>>

CallGenerateReasoning ==
    /\ helper = ""
    /\ helper' = "_generate_reasoning"
    /\ ret' = _generate_reasoning(arg_region, arg_request,
                                  <<[region |-> arg_region, score |-> Rat(9, 10)]>>)
    /\ UNCHANGED <<arg_region, arg_request, sched_vars, lookup_vars>>

CallCalculateCost ==
    /\ helper = ""
    /\ helper' = "_calculate_cost"
    /\ ret' = _calculate_cost(arg_region, arg_request)
    /\ UNCHANGED <<arg_region, arg_request, sched_vars, lookup_vars>>

CallCalculateEmissions ==
    /\ helper = ""
    /\ helper' = "_calculate_emissions"
    /\ ret' = _calculate_emissions(arg_region, arg_request)
    /\ UNCHANGED <<arg_region, arg_request, sched_vars, lookup_vars>>

--------------------------------------------------------------------------
(* Specifications                                                          *)

NoRegion == Region("", 0, 0, RInt(0), EmptyDict, 0, 0, FALSE)
NoRequest == Request(1, EmptyDict, None, None, None, None, None)

SchedIdle ==
    /\ weights = InitialWeights
    /\ workloads = <<>>
    /\ clock = 0
    /\ calls = 0
    /\ request = NoRequest
    /\ region_scores = <<>>
    /\ response = NoResponse

FilterIdle ==
    /\ arg_region = NoRegion
    /\ arg_request = NoRequest
    /\ helper = ""
    /\ ret = FALSE

LookupIdle ==
    /\ history = <<>>
    /\ arg_region_id = ""
    /\ details = None
    /\ http = NoAnswer
    /\ arg_filters = None
    /\ listing = <<>>
    /\ pc = [p \in Procs |-> "idle"]
    /\ session = [p \in Procs |-> <<>>]
    /\ local = [p \in Procs |-> [req |-> NoRequest, result |-> NoResponse]]
    /\ answer = [p \in Procs |-> NoResponse]

\* the service: a regions table and a sequence of schedule_workload calls
Init ==
    /\ regions \in Catalogs
    /\ SchedIdle
    /\ FilterIdle
    /\ LookupIdle

Next ==
    \E req \in SchedRequests :
        ScheduleWorkload(req) /\ UNCHANGED <<filter_vars, lookup_vars>>

Spec == Init /\ [][Next]_vars

\* the service over catalogs that hold regions differing in their green
\* energy score only, called with requests that differ in advisory fields
DecisionInit ==
    /\ regions \in DecisionCatalogs
    /\ SchedIdle
    /\ FilterIdle
    /\ LookupIdle

\* one call per behaviour: the decision is looked at call by call
DecisionNext ==
    \E req \in DecisionRequests :
        /\ calls = 0
        /\ ScheduleWorkload(req)
        /\ UNCHANGED <<filter_vars, lookup_vars>>

SpecDecision == DecisionInit /\ [][DecisionNext]_vars

\* the identifiers looked up: those of the regions, and one of no region
LookupIds == {r.region_id : r \in RegionPool} \cup {"non-existent"}

\* one lookup of the details of a region
DetailsNext == \E region_id \in LookupIds : GetRegionDetails(region_id)

SpecDetails == Init /\ [][DetailsNext]_vars

\* one request to the route GET /regions/{region_id}/details
RouteNext == \E region_id \in LookupIds : HttpGetRegionDetails(region_id)

SpecRoute == Init /\ [][RouteNext]_vars

\* schedule_workload calls in progress at the same time over the first two
\* test regions
ConcurrentCatalogs ==
    {table \in DecisionCatalogs :
        /\ Len(table) = 2
        /\ \A i \in 1..2 : table[i].region_id \in {"eu-north-1", "us-west-1"}}

ConcurrentRequests ==
    { Request(1, One("T4", 1), None, None, None, None, None),
      Request(2, One("V100", 1), None, None, Some(<<"us-west-1">>), None, None),
      Request(1, One("V100", 100), None, None, None, None, None) }

ConcurrentInit ==
    /\ regions \in ConcurrentCatalogs
    /\ SchedIdle
    /\ FilterIdle
    /\ LookupIdle

CallStep ==
    \E p \in Procs :
        \/ \E req \in ConcurrentRequests : QueryRegions(p, req)
        \/ CommitDecision(p)
        \/ BuildResponse(p)

\* the calls alone
CallsNext == CallStep

SpecCalls == ConcurrentInit /\ [][CallsNext]_vars

\* the calls and the writer of the regions table
SnapshotNext ==
    CallStep \/ \E i \in 1..MaxRegions, green \in RefreshedScores : UpdateRegion(i, green)

SpecSnapshot == ConcurrentInit /\ [][SnapshotNext]_vars

\* the workloads listed after a sequence of schedule_workload calls that
\* assign to two regions or fail
ListingCatalogs ==
    {table \in Catalogs : Len(table) = MaxRegions /\ table[1].region_id = "us-west-1"}

ListingRequests ==
    { Request(1, One("T4", 1), None, None, Some(<<"us-west-1">>), None, None),
      Request(2, One("V100", 1), None, None, Some(<<"eu-north-1">>), None, None),
      Request(1, One("V100", 100), None, None, None, None, None) }

StatusFilters == {None, Some(""), Some("scheduled"), Some("running")}
RegionFilters == {None, Some(""), Some("us-west-1"), Some("eu-north-1")}

ListingInit ==
    /\ regions \in ListingCatalogs
    /\ SchedIdle
    /\ FilterIdle
    /\ LookupIdle

ListingNext ==
    \/ \E req \in ListingRequests :
          /\ arg_filters = None
          /\ ScheduleWorkload(req)
          /\ UNCHANGED <<filter_vars, lookup_vars>>
    \/ \E status \in StatusFilters, region_id \in RegionFilters :
          GetWorkloads(status, region_id)

SpecListing == ListingInit /\ [][ListingNext]_vars

\* the filter and the scorer applied to one region and one request
FilterInit ==
    /\ arg_region \in FilterRegions
    /\ arg_request \in FilterRequests
    /\ helper = ""
    /\ ret = FALSE
    /\ regions = <<>>
    /\ SchedIdle
    /\ LookupIdle

FilterNext == CallMeetsRequirements \/ CallCalculateRegionScore

SpecFilter == FilterInit /\ [][FilterNext]_vars

\* the estimators and the filter applied to one region and one request
EstimateInit ==
    /\ arg_region \in EstimateRegions
    /\ arg_request \in EstimateRequests
    /\ helper = ""
    /\ ret = FALSE
    /\ regions = <<>>
    /\ SchedIdle
    /\ LookupIdle

EstimateNext ==
    CallCalculateCost \/ CallCalculateEmissions \/ CallMeetsRequirements

SpecEstimate == EstimateInit /\ [][EstimateNext]_vars

\* ---- the helpers called again and again on one region and one request ----

\* the regions and requests of the repeated calls: every inventory and every
\* GPU demand, with and without a region list and a cost cap
PureRegions ==
    {region \in FilterRegions :
        region.green_energy_score = 100 /\ region.carbon_intensity = 150}

PureRequests ==
    {req \in FilterRequests :
        /\ req.estimated_duration_hours = 1
        /\ req.memory_gb = None
        /\ req.cpu_cores = None
        /\ req.max_carbon_emissions = None
        /\ req.preferred_regions \in {None, Some(<<"eu-north-1">>)}
        /\ req.max_cost_per_hour \in {None, Some(Rat(1, 100))}}

\* one more call of a helper on the allocator: what it returned is appended
\* to the history; the helpers assign to no attribute of the region, of the
\* request or of self
Recorded(name, value) ==
    /\ Len(history) < MaxCalls + 1
    /\ helper' = name
    /\ ret' = value
    /\ history' = Append(history, [helper |-> name, ret |-> value])

RecordMeetsRequirements ==
    /\ Recorded("_meets_requirements", _meets_requirements(arg_region, arg_request))
    /\ UNCHANGED <<arg_region, arg_request, sched_vars, arg_region_id, details, http,
                   arg_filters, listing, call_vars>>

\* a scorer that folds the latency score into self.weight_latency in place
RecordCalculateRegionScore_rescaling ==
    /\ Recorded("_calculate_region_score",
                _calculate_region_score(arg_region, arg_request))
    /\ weights' = [weights EXCEPT !.latency = RMul(@, latency_score)]
    /\ UNCHANGED <<arg_region, arg_request, regions, workloads, clock, calls,
                   request, region_scores, response, arg_region_id, details,
                   http, arg_filters, listing, call_vars>>

RecordCalculateRegionScore ==
    /\ Recorded("_calculate_region_score",
                _calculate_region_score(arg_region, arg_request))
    /\ UNCHANGED <<arg_region, arg_request, sched_vars, arg_region_id, details, http,
                   arg_filters, listing, call_vars>>

RecordCalculateCost ==
    /\ Recorded("_calculate_cost", _calculate_cost(arg_region, arg_request))
    /\ UNCHANGED <<arg_region, arg_request, sched_vars, arg_region_id, details, http,
                   arg_filters, listing, call_vars>>

PureInit ==
    /\ arg_region \in PureRegions
    /\ arg_request \in PureRequests
    /\ helper = ""
    /\ ret = FALSE
    /\ regions = <<>>
    /\ SchedIdle
    /\ LookupIdle

PureNext ==
    RecordMeetsRequirements \/ RecordCalculateRegionScore \/ RecordCalculateCost

SpecPure == PureInit /\ [][PureNext]_vars

\* the reasoning for one chosen region and one request: regions on both
\* sides of every threshold of _generate_reasoning
ReasoningRegions ==
    [region_id : {"eu-north-1"},
     name : {"EU North (Stockholm)"},
     green_energy_score : {0, 59, 60, 79, 80, 100},
     renewable_percentage : {90},
     carbon_intensity : {0, 150, 151},
     electricity_cost : {RInt(0), Rat(12, 100), Rat(13, 100)},
     gpu_availability : Inventories,
     cpu_availability : {4},
     memory_availability_gb : {16},
     is_active : {TRUE}]

ReasoningRequests ==
    {req \in PureRequests : req.preferred_regions = None /\ req.max_cost_per_hour = None}

ReasoningInit ==
    /\ arg_region \in ReasoningRegions
    /\ arg_request \in ReasoningRequests
    /\ helper = ""
    /\ ret = FALSE
    /\ regions = <<>>
    /\ SchedIdle
    /\ LookupIdle

ReasoningNext == CallGenerateReasoning

SpecReasoning == ReasoningInit /\ [][ReasoningNext]_vars

\* the availability score of one region for one request, called directly
AvailabilityNext == CallCalculateAvailabilityScore

SpecAvailability == PureInit /\ [][AvailabilityNext]_vars

--------------------------------------------------------------------------
(* Properties of schedule_workload, checked under Spec                     *)

Rows == 1..Len(regions)
Called == calls > 0
ReturnedDecision == response.kind = "returned"
Feasible(i) == regions[i].is_active /\ _meets_requirements(regions[i], request)
\* the score of a region (defined when the scorer does not raise)
CompositeOf(region, req) == _calculate_region_score(region, req).value
ScoreOf(i) == CompositeOf(regions[i], request)

\* C1: whenever schedule_workload returns a decision, the recommended
\* region is a row of the regions table that is active and passes
\* _meets_requirements for the request.
C1_RecommendedIsActiveAndFeasible ==
    ReturnedDecision =>
        \E i \in Rows :
            /\ regions[i].region_id = response.recommended_region
            /\ regions[i].is_active
            /\ _meets_requirements(regions[i], request)

\* a decision was returned although the table holds a region that is
\* inactive or infeasible for the request
C1_Witness ==
    /\ ReturnedDecision
    /\ \E i \in Rows : ~Feasible(i)

\* C2: the recommended region has the highest score among the active
\* regions scoring > 0, and every active region before it in the table
\* scores strictly lower.
C2_HighestScoreFirstWins ==
    ReturnedDecision =>
        \E i \in Rows :
            /\ regions[i].region_id = response.recommended_region
            /\ regions[i].is_active
            /\ RLess(RInt(0), ScoreOf(i))
            /\ \A j \in Rows : regions[j].is_active => RLeq(ScoreOf(j), ScoreOf(i))
            /\ \A j \in 1..(i - 1) : regions[j].is_active => RLess(ScoreOf(j), ScoreOf(i))

\* a decision between two active regions that share the highest score
C2_Witness ==
    /\ ReturnedDecision
    /\ \E i, j \in Rows :
          /\ i < j
          /\ regions[i].is_active /\ regions[j].is_active
          /\ ScoreOf(i) = ScoreOf(j)
          /\ regions[i].region_id = response.recommended_region

\* C3: with no active region in the table, every call raises "No active
\* regions available", and no workload row is ever written.
C3_NoActiveRegionsFails ==
    (Called /\ \A i \in Rows : ~regions[i].is_active) =>
        /\ response.kind = "raised"
        /\ response.detail = "No active regions available"
        /\ workloads = <<>>

\* a call against a table whose only rows are inactive
C3_Witness ==
    /\ Called
    /\ regions # <<>>
    /\ \A i \in Rows : ~regions[i].is_active

\* C4: with an active region but none that passes the filter, the call
\* raises "No regions meet the workload requirements"; the HTTP answer
\* differs from the one for an empty catalog.
C4_NoFeasibleRegionFails ==
    (Called /\ (\E i \in Rows : regions[i].is_active)
            /\ (\A i \in Rows : ~Feasible(i))) =>
        /\ response = NoRegionsMeet
        /\ response.detail = "No regions meet the workload requirements"
        /\ HttpScheduleWorkload(response) # HttpScheduleWorkload(NoActiveRegions)

\* a call for which an active region exists and none is feasible
C4_Witness ==
    /\ Called
    /\ \E i \in Rows : regions[i].is_active
    /\ \A i \in Rows : ~Feasible(i)

\* C6 as stated: when the request carries a preferred list of any length,
\* every region outside the list is infeasible and none is recommended.
C6_AnyListExcludes ==
    (Called /\ request.preferred_regions # None) =>
        /\ \A i \in Rows :
              ~InList(regions[i].region_id, request.preferred_regions[1])
                  => ~_meets_requirements(regions[i], request)
        /\ ReturnedDecision
              => InList(response.recommended_region, request.preferred_regions[1])

\* C6 amended: when the request carries a non-empty preferred list, every
\* region outside the list is infeasible and none is recommended.
C6_NonEmptyListExcludes ==
    (Called /\ TruthyList(request.preferred_regions)) =>
        /\ \A i \in Rows :
              ~InList(regions[i].region_id, request.preferred_regions[1])
                  => ~_meets_requirements(regions[i], request)
        /\ ReturnedDecision
              => InList(response.recommended_region, request.preferred_regions[1])

\* a decision for a request with a preferred list, while the table holds an
\* active region outside the list that would score higher than the chosen
\* one if the request had no list
C6_Witness ==
    /\ ReturnedDecision
    /\ TruthyList(request.preferred_regions)
    /\ \E i, j \in Rows :
          /\ regions[i].is_active
          /\ ~InList(regions[i].region_id, request.preferred_regions[1])
          /\ regions[j].region_id = response.recommended_region
          /\ RLess(CompositeOf(regions[j], request),
                   CompositeOf(regions[i], [request EXCEPT !.preferred_regions = None]))

\* C7 as stated: every call ends in a decision, in "No active regions
\* available" or in "No regions meet the workload requirements".
C7_ThreeOutcomes ==
    Called =>
        \/ response.kind = "returned"
        \/ response.kind = "raised" /\ response.detail = NoActiveRegions.detail
        \/ response.kind = "raised" /\ response.detail = NoRegionsMeet.detail

\* the workload row was written for a request equal to the given one
SameRequest(row, req) ==
    /\ row.name = req.name
    /\ row.workload_type = req.workload_type
    /\ row.priority = req.priority
    /\ row.deadline = req.deadline
    /\ row.estimated_duration_hours = req.estimated_duration_hours
    /\ row.gpu_requirements = req.gpu_requirements
    /\ row.memory_gb = req.memory_gb
    /\ row.cpu_cores = req.cpu_cores
    /\ row.preferred_regions = req.preferred_regions
    /\ row.max_cost_per_hour = req.max_cost_per_hour
    /\ row.max_carbon_emissions = req.max_carbon_emissions

\* C18: no schedule_workload call, successful or failed, changes a row of
\* the regions table, and a decision names the region that every earlier
\* decision for an equal request named.
C18_CatalogReadOnly ==
    [][/\ regions' = regions
       /\ ReturnedDecision' =>
             \A k \in 1..Len(workloads) :
                 SameRequest(workloads[k], request')
                     => workloads[k].region_id = response'.recommended_region]_vars

\* the second of two decisions for one request that asks for GPUs, over a
\* table with two feasible regions
C18_Witness ==
    /\ ReturnedDecision
    /\ Len(workloads) >= 2
    /\ SameRequest(workloads[1], request)
    /\ request.gpu_requirements # EmptyDict
    /\ \E i, j \in Rows : i # j /\ Feasible(i) /\ Feasible(j)

--------------------------------------------------------------------------
(* Properties of the filter and the scorer, checked under SpecFilter       *)

MetRequirements == _meets_requirements(arg_region, arg_request)

\* rules (2) to (6) of the feasibility filter, as the specification states them
RulesTwoToSix(region, req) ==
    /\ \A t \in DOMAIN req.gpu_requirements :
          Get(region.gpu_availability, t) >= req.gpu_requirements[t]
    /\ req.memory_gb = None
          \/ region.memory_availability_gb >= req.memory_gb[1]
    /\ req.cpu_cores = None
          \/ region.cpu_availability >= req.cpu_cores[1]
    /\ req.max_cost_per_hour = None
          \/ RLeq(_calculate_hourly_cost(region, req), req.max_cost_per_hour[1])
    /\ req.max_carbon_emissions = None
          \/ RLeq(_calculate_emissions(region, req), req.max_carbon_emissions[1])

\* C5 as stated: _meets_requirements is true exactly when the preferred
\* list is absent or holds the region, and rules (2) to (6) hold.
C5_SixRules ==
    helper = "_meets_requirements" =>
        (ret <=>
            /\ arg_request.preferred_regions = None
                  \/ InList(arg_region.region_id, arg_request.preferred_regions[1])
            /\ RulesTwoToSix(arg_region, arg_request))

\* C5 amended: _meets_requirements is true exactly when the preferred list
\* is absent, empty or holds the region, and rules (2) to (6) hold.
C5_SixRulesEmptyListUnconstrained ==
    helper = "_meets_requirements" =>
        (ret <=>
            /\ arg_request.preferred_regions = None
                  \/ arg_request.preferred_regions[1] = <<>>
                  \/ InList(arg_region.region_id, arg_request.preferred_regions[1])
            /\ RulesTwoToSix(arg_region, arg_request))

\* the filter accepted a region for a request with an empty preferred list
\* and a GPU, memory, CPU, cost and emissions requirement
C5_Witness ==
    /\ helper = "_meets_requirements"
    /\ ret = TRUE
    /\ arg_request.preferred_regions = Some(<<>>)
    /\ arg_request.gpu_requirements # EmptyDict
    /\ arg_request.memory_gb # None /\ arg_request.cpu_cores # None
    /\ arg_request.max_cost_per_hour # None
    /\ arg_request.max_carbon_emissions # None

\* C8 as stated: the score is exactly 0.0 if and only if the region fails
\* the filter, and a region that passes gets a score > 0.
C8_ZeroIffInfeasible ==
    helper = "_calculate_region_score" =>
        /\ ret = Returned(RInt(0)) <=> ~MetRequirements
        /\ MetRequirements => ~ret.raised /\ RLess(RInt(0), ret.value)

\* C9: a score that _calculate_region_score returns lies in [0, 1].
C9_ScoreInUnitInterval ==
    (helper = "_calculate_region_score" /\ ~ret.raised) =>
        RLeq(RInt(0), ret.value) /\ RLeq(ret.value, RInt(1))

\* a feasible region with a green score of 100 and free electricity scored
\* above 0.9
C9_Witness ==
    /\ helper = "_calculate_region_score"
    /\ ~ret.raised
    /\ arg_region.green_energy_score = 100
    /\ RLess(Rat(9, 10), ret.value)

\* the requests that differ from the given one in one raised requirement: a
\* higher count of a required GPU model, or a higher (or newly stated)
\* memory or CPU requirement
MoreDemanding(req) ==
    LET reqs == req.gpu_requirements
        higher(x, values) == {Some(v) : v \in {w \in values : w > OrZero(x)}}
    IN  UNION {{[req EXCEPT !.gpu_requirements[t] = c] :
                    c \in (reqs[t] + 1)..(MaxCount + 1)} : t \in DOMAIN reqs}
        \cup {[req EXCEPT !.memory_gb = m] :
                    m \in higher(req.memory_gb, {8, 16, 32, 64})}
        \cup {[req EXCEPT !.cpu_cores = c] :
                    c \in higher(req.cpu_cores, {2, 4, 8, 16})}

\* C10: a region that _meets_requirements rejects is rejected for every
\* request with one requirement raised.
C10_FeasibilityMonotonic ==
    (helper = "_meets_requirements" /\ ret = FALSE) =>
        \A harder \in MoreDemanding(arg_request) :
            ~_meets_requirements(arg_region, harder)

\* a region rejected for a request mentioning a GPU model, memory and CPU,
\* each of which a harder request raises
C10_Witness ==
    /\ helper = "_meets_requirements"
    /\ ret = FALSE
    /\ arg_request.gpu_requirements # EmptyDict
    /\ arg_request.memory_gb # None /\ arg_request.cpu_cores # None
    /\ Cardinality(MoreDemanding(arg_request)) >= 3

--------------------------------------------------------------------------
(* Properties of the estimators, checked under SpecEstimate                *)

Hourly(req) == [req EXCEPT !.estimated_duration_hours = 1]
Lasting(req, hours) == [req EXCEPT !.estimated_duration_hours = hours]
Doubled(req) == Lasting(req, 2 * req.estimated_duration_hours)
CalledCost == helper = "_calculate_cost"
CalledEmissions == helper = "_calculate_emissions"

\* C11: the cost and the emissions of a request are the cost and the
\* emissions of one hour times the duration, and those of the request with
\* its duration doubled are exactly twice as much.
C11_DoublingDurationDoubles ==
    /\ CalledCost =>
          /\ ret = RMul(_calculate_hourly_cost(arg_region, arg_request),
                        RInt(arg_request.estimated_duration_hours))
          /\ _calculate_cost(arg_region, Doubled(arg_request)) = RMul(RInt(2), ret)
    /\ CalledEmissions =>
          /\ ret = RMul(_calculate_emissions(arg_region, Hourly(arg_request)),
                        RInt(arg_request.estimated_duration_hours))
          /\ _calculate_emissions(arg_region, Doubled(arg_request))
                = RMul(RInt(2), ret)

\* a nonzero cost or nonzero emissions computed for more than one hour
C11_Witness ==
    /\ CalledCost \/ CalledEmissions
    /\ arg_request.estimated_duration_hours > 1
    /\ arg_request.gpu_requirements # EmptyDict
    /\ RLess(RInt(0), ret)

LongerDurations == (arg_request.estimated_duration_hours + 1)..(MaxHours + 1)

\* C12 as stated: for a region with electricity_cost >= 0 and
\* carbon_intensity >= 0, a longer duration gives a strictly higher cost
\* and strictly higher emissions.
C12_StrictlyIncreasing ==
    /\ CalledCost =>
          \A d \in LongerDurations :
              RLess(ret, _calculate_cost(arg_region, Lasting(arg_request, d)))
    /\ CalledEmissions =>
          \A d \in LongerDurations :
              RLess(ret, _calculate_emissions(arg_region, Lasting(arg_request, d)))

\* C12 amended: a longer duration never gives a lower cost or lower
\* emissions; the cost is strictly higher exactly when the hourly cost is
\* above zero, the emissions exactly when the carbon intensity is above zero.
C12_IncreasingWherePositive ==
    /\ CalledCost =>
          \A d \in LongerDurations :
              LET longer == _calculate_cost(arg_region, Lasting(arg_request, d))
              IN  /\ RLeq(ret, longer)
                  /\ RLess(ret, longer)
                        <=> RLess(RInt(0), _calculate_hourly_cost(arg_region, arg_request))
    /\ CalledEmissions =>
          \A d \in LongerDurations :
              LET longer == _calculate_emissions(arg_region, Lasting(arg_request, d))
              IN  /\ RLeq(ret, longer)
                  /\ RLess(ret, longer) <=> arg_region.carbon_intensity > 0

\* emissions computed for a region with a carbon intensity above zero and a
\* request that a longer one is compared with
C12_Witness ==
    /\ CalledEmissions
    /\ arg_region.carbon_intensity > 0
    /\ arg_request.estimated_duration_hours < MaxHours
    /\ RLess(RInt(0), ret)

\* C13: the same request emits strictly less in a region that differs from
\* the given one only by a lower carbon_intensity.
C13_LowerCarbonLowerEmissions ==
    CalledEmissions =>
        \A carbon \in 0..(arg_region.carbon_intensity - 1) :
            RLess(_calculate_emissions(
                      [arg_region EXCEPT !.carbon_intensity = carbon], arg_request),
                  ret)

\* emissions computed for a region that a cleaner twin is compared with
C13_Witness ==
    /\ CalledEmissions
    /\ arg_region.carbon_intensity = 150
    /\ arg_request.gpu_requirements # EmptyDict

ScenarioRequest ==
    /\ arg_request.max_cost_per_hour = Some(Rat(1, 100))
    /\ arg_request.gpu_requirements = [t \in {"A100"} |-> 5]

\* C15 as stated: the request with max_cost_per_hour = 0.01 and
\* gpu_requirements = {A100: 5} is rejected for every region whose
\* electricity_cost is not zero.
C15_NonzeroCostRejected ==
    (helper = "_meets_requirements" /\ ScenarioRequest
        /\ arg_region.electricity_cost # RInt(0)) => ret = FALSE

\* C15 amended: that request is rejected, by the cost rule, for every region
\* whose electricity_cost is above 0.000625 (sixteen times which is 0.01).
C15_CostAboveCapRejected ==
    (helper = "_meets_requirements" /\ ScenarioRequest
        /\ RLess(Rat(1, 1600), arg_region.electricity_cost)) =>
        /\ ret = FALSE
        /\ FailsCost(arg_region, arg_request)

\* the request rejected for a region that stocks the five A100 and sells
\* electricity below the cap of the request
C15_Witness ==
    /\ helper = "_meets_requirements"
    /\ ScenarioRequest
    /\ ret = FALSE
    /\ Get(arg_region.gpu_availability, "A100") >= 5
    /\ RLess(Rat(1, 1600), arg_region.electricity_cost)
    /\ RLess(arg_region.electricity_cost, Rat(1, 100))

\* count(model): the count the request asks of a model, 0 when it asks none
Count(req, model) == Get(req.gpu_requirements, model)

\* electricity_cost * (1 + 3*A100 + 2*V100 + 1*T4) + 0.001*memory + 0.05*cpu
HourlyCostFormula(region, req) ==
    RAdd(RAdd(RMul(region.electricity_cost,
                   RInt(1 + 3 * Count(req, "A100") + 2 * Count(req, "V100")
                          + 1 * Count(req, "T4"))),
              RMul(Rat(1, 1000), RInt(OrZero(req.memory_gb)))),
         RMul(Rat(5, 100), RInt(OrZero(req.cpu_cores))))

\* C23: _calculate_hourly_cost is electricity_cost * (1 + 3*count(A100) +
\* 2*count(V100) + count(T4)) + 0.001*memory_gb + 0.05*cpu_cores, an absent
\* memory or CPU requirement counting as 0 and every other GPU model adding
\* nothing, and _calculate_cost returns that times estimated_duration_hours.
C23_CostFormula ==
    CalledCost =>
        /\ _calculate_hourly_cost(arg_region, arg_request)
             = HourlyCostFormula(arg_region, arg_request)
        /\ ret = RMul(HourlyCostFormula(arg_region, arg_request),
                      RInt(arg_request.estimated_duration_hours))

\* the cost of a request for T4 and H100 GPUs with no memory requirement and
\* a CPU requirement, over more than one hour, in a region that bills
C23_Witness ==
    /\ CalledCost
    /\ Count(arg_request, "H100") > 0
    /\ Count(arg_request, "T4") > 0
    /\ arg_request.memory_gb = None
    /\ arg_request.cpu_cores # None
    /\ arg_request.estimated_duration_hours > 1
    /\ RLess(RInt(0), arg_region.electricity_cost)

\* ((100 + 400*A100 + 300*V100 + 70*T4) / 1000) * hours * (carbon_intensity / 1000)
EmissionsFormula(region, req) ==
    RMul(RMul(Rat(100 + 400 * Count(req, "A100") + 300 * Count(req, "V100")
                    + 70 * Count(req, "T4"), 1000),
              RInt(req.estimated_duration_hours)),
         Rat(region.carbon_intensity, 1000))

\* C24: _calculate_emissions returns ((100 + 400*count(A100) +
\* 300*count(V100) + 70*count(T4)) / 1000) * estimated_duration_hours *
\* (carbon_intensity / 1000) kilograms, every other GPU model adding no
\* power.
C24_EmissionsFormula ==
    CalledEmissions => ret = EmissionsFormula(arg_region, arg_request)

\* the emissions of a request for T4 and H100 GPUs over more than one hour
\* in a region whose electricity emits carbon
C24_Witness ==
    /\ CalledEmissions
    /\ Count(arg_request, "H100") > 0
    /\ Count(arg_request, "T4") > 0
    /\ arg_request.estimated_duration_hours > 1
    /\ arg_region.carbon_intensity > 0
    /\ RLess(RInt(0), ret)

--------------------------------------------------------------------------
(* Properties of the decision, checked under SpecDecision                  *)

\* rows i and j differ in identifier, name and green energy score only, and
\* row i has the lower green energy score
LowerGreenTwin(i, j) ==
    /\ regions[i].green_energy_score < regions[j].green_energy_score
    /\ [regions[i] EXCEPT !.region_id = "", !.name = "", !.green_energy_score = 0]
         = [regions[j] EXCEPT !.region_id = "", !.name = "", !.green_energy_score = 0]

AdvisoryVariants(req) ==
    {Advisory(req, name, type, priority, deadline) :
        name \in {"Test Workload", "Nightly"}, type \in WorkloadTypes,
        priority \in WorkloadPriorities, deadline \in Deadlines}

\* the same failure, or the same region, cost, emissions and reasoning
SameDecision(a, b) ==
    /\ a.kind = b.kind
    /\ a.detail = b.detail
    /\ a.kind = "returned" =>
          /\ a.recommended_region = b.recommended_region
          /\ a.estimated_cost = b.estimated_cost
          /\ a.estimated_emissions = b.estimated_emissions
          /\ a.reasoning = b.reasoning

\* C17: the answer to a request is the answer the same table gives to every
\* request that differs from it in name, workload type, priority or
\* deadline only: the same region, cost, emissions and reasoning.
C17_AdvisoryFieldsIgnored ==
    Called =>
        \A other \in AdvisoryVariants(request) :
            SameDecision(response, ScheduleResult(regions, other, 0, 0).response)

\* a decision for a critical request whose deadline is before its estimated
\* end time
C17_Witness ==
    /\ ReturnedDecision
    /\ request.priority = "critical"
    /\ request.deadline # None
    /\ request.deadline[1] < response.estimated_end_time

--------------------------------------------------------------------------
(* Properties of get_region_details, checked under SpecDetails             *)

LookedUp == arg_region_id # ""
Matches(i) == regions[i].region_id = arg_region_id

\* C20: get_region_details returns None when no row of the regions table
\* has the identifier, and otherwise the details of a row with it, whose
\* region_id is the identifier asked for.
C20_DetailsOrNone ==
    LookedUp =>
        IF \E i \in Rows : Matches(i)
        THEN /\ details # None
             /\ details[1].region_id = arg_region_id
             /\ \E i \in Rows : Matches(i) /\ details[1] = RegionDetailsOf(regions[i])
        ELSE details = None

\* the details of an inactive region that is not the first row of the table
C20_Witness ==
    /\ LookedUp
    /\ details # None
    /\ \E i \in Rows : i > 1 /\ Matches(i) /\ ~regions[i].is_active


\* ---------------- claims checked under SpecPure ----------------

\* the calls of one helper in the history
CallsOf(name) == {i \in DOMAIN history : history[i].helper = name}

\* every two calls of the same helper returned the same value, and every call
\* of the scorer returned 0.0 exactly when the standalone calls of the filter
\* returned False
HistoryAgrees ==
    /\ \A i \in DOMAIN history : \A j \in CallsOf(history[i].helper) :
           history[j].ret = history[i].ret
    /\ \A i \in CallsOf("_meets_requirements") :
       \A j \in CallsOf("_calculate_region_score") :
           (history[i].ret = FALSE) <=> (history[j].ret = Returned(RInt(0)))

CalledAvailability == helper = "_calculate_availability_score"

\* min(1, available / (2 * required)), 0 for a model with none available
PerModelScore(region, req, t) ==
    IF Get(region.gpu_availability, t) = 0 THEN RInt(0)
    ELSE RMin(RInt(1), Rat(Get(region.gpu_availability, t), 2 * req.gpu_requirements[t]))

\* the average of the per-model scores over all required models, each
\* weighted with its required count
AverageOverAll(region, req) ==
    LET reqs == req.gpu_requirements
    IN  RDiv(RSumOver([t \in DOMAIN reqs |->
                          RMul(PerModelScore(region, req, t), RInt(reqs[t]))],
                      DOMAIN reqs),
             RInt(SumOver(reqs, DOMAIN reqs)))

\* every required count is positive, as in a request that asks for GPUs
PositiveCounts(req) == \A t \in DOMAIN req.gpu_requirements : req.gpu_requirements[t] > 0

\* C25: _calculate_availability_score returns 1.0 for a request without GPU
\* requirements, and otherwise the average over all required models of
\* min(1, available / (2 * required)) weighted with the required count, a
\* model with none available scoring 0 and counting in the denominator.
C25_AverageOverAllRequired ==
    (CalledAvailability /\ PositiveCounts(arg_request)) =>
        IF DOMAIN arg_request.gpu_requirements = {}
        THEN ret = Returned(RInt(1))
        ELSE ret = Returned(AverageOverAll(arg_region, arg_request))

\* ---------------- claims checked under SpecReasoning ----------------

CalledReasoning == helper = "_generate_reasoning"

\* the sentences of the reasoning that begin with the given words
Sentences(words) == {i \in DOMAIN ret : ret[i].sentence = words}
Says(words) == Sentences(words) # {}

\* C26: the reasoning always names the chosen region; it has the Excellent
\* green sentence exactly when the green score is at least 80, the Good one
\* exactly when it is at least 60 and below 80; the low-cost sentence
\* exactly when electricity_cost <= 0.12; the low-carbon sentence exactly
\* when carbon_intensity <= 150; and the resources sentence exactly when the
\* request has GPU requirements, giving for each required model the count
\* available in the chosen region, 0 for a model it does not stock.
C26_ReasoningClauses ==
    CalledReasoning =>
        LET green == arg_region.green_energy_score
            reqs == arg_request.gpu_requirements
        IN  /\ ret[1] = Clause("Selected", <<arg_region.name>>)
            /\ Says("Excellent green energy score") <=> green >= 80
            /\ Says("Good green energy score") <=> (60 <= green /\ green < 80)
            /\ Says("Low electricity cost")
                  <=> RLeq(arg_region.electricity_cost, Rat(12, 100))
            /\ Says("Low carbon intensity") <=> arg_region.carbon_intensity <= 150
            /\ Says("Sufficient resources") <=> DOMAIN reqs # {}
            /\ \A i \in Sentences("Sufficient resources") :
                  /\ DOMAIN ret[i].values[1] = DOMAIN reqs
                  /\ \A t \in DOMAIN reqs :
                        ret[i].values[1][t]
                          = IF t \in DOMAIN arg_region.gpu_availability
                            THEN arg_region.gpu_availability[t] ELSE 0
            /\ \A i, j \in DOMAIN ret : ret[i].sentence = ret[j].sentence => i = j

\* the reasoning for a region with a green score of 80, a price of 0.12 and
\* a carbon intensity of 150, for a request that asks for a model the
\* region does not stock: all five sentences
C26_Witness ==
    /\ CalledReasoning
    /\ arg_region.green_energy_score = 80
    /\ arg_region.electricity_cost = Rat(12, 100)
    /\ arg_region.carbon_intensity = 150
    /\ \E t \in DOMAIN arg_request.gpu_requirements :
          t \notin DOMAIN arg_region.gpu_availability
    /\ Len(ret) = 5

\* ---------------- claims checked under SpecRoute ----------------

\* the route has answered
Answered == arg_region_id # "" /\ http # NoAnswer

\* C21: GET /regions/{region_id}/details answers with status 404 when the
\* identifier matches no region of the table, and with status 200 and the
\* details of the region when it matches one.
C21_NotFoundIs404 ==
    Answered =>
        IF \E i \in Rows : Matches(i)
        THEN /\ http.status_code = 200
             /\ \E i \in Rows : Matches(i) /\ http.body = RegionDetailsOf(regions[i])
        ELSE http.status_code = 404

\* ---------------- claims checked under SpecSnapshot ----------------

Done(p) == pc[p] = "done"

\* what the call answers when every step of it sees the regions it loaded
FromSession(p) ==
    ScheduleResult(session[p], local[p].req,
                   answer[p].workload_id, answer[p].estimated_start_time - StartBuffer
                  ).response

\* C28: each schedule_workload call works on one snapshot of the catalog:
\* whatever another process writes to the regions table while the call is
\* in progress, the region chosen, its cost, emissions, reasoning, and the
\* green_energy_score and region id of the decision are those of the
\* regions the call loaded.
C28_DecisionFromOneSnapshot ==
    \A p \in Procs :
        (Done(p) /\ answer[p].kind = "returned") => answer[p] = FromSession(p)

\* ---------------- claims checked under SpecCalls ----------------

\* what the call of p answers when it is the only call made on the table
RunAlone(p) == ScheduleResult(regions, local[p].req, 0, 0).response

\* the same failure, or the same decision but for the workload_id and the
\* times, which are those of the call
SameAnswer(a, b) ==
    /\ SameDecision(a, b)
    /\ a.kind = "returned" =>
          /\ a.green_energy_score = b.green_energy_score
          /\ a.status = b.status
          /\ a.estimated_end_time - a.estimated_start_time
               = b.estimated_end_time - b.estimated_start_time

\* C29: schedule_workload calls in progress at the same time on the one
\* allocator do not interfere: however their steps interleave, each call
\* answers what it answers when run alone on the same regions table, and
\* the four weights of the allocator are 0.4, 0.3, 0.2 and 0.1 in every
\* reachable state.
C29_ConcurrentCallsIndependent ==
    /\ weights = [green_energy |-> Rat(4, 10), cost |-> Rat(3, 10),
                  availability |-> Rat(2, 10), latency |-> Rat(1, 10)]
    /\ \A p \in Procs : Done(p) => SameAnswer(answer[p], RunAlone(p))

\* two calls with different requests, that of the second process committed
\* first, both answered with a decision, for different regions
C29_Witness ==
    /\ \A p \in {1, 2} : Done(p) /\ answer[p].kind = "returned"
    /\ local[1].req # local[2].req
    /\ answer[1].recommended_region # answer[2].recommended_region
    /\ answer[1].workload_id = 2

\* the calls that returned a decision, and those whose row is committed
ReturnedCalls == {p \in Procs : Done(p) /\ answer[p].kind = "returned"}
CommittedCalls == ReturnedCalls \cup {p \in Procs : pc[p] = "committed"}

\* the rows of the store that record the decision a call returned
RecordsOf(decision) ==
    {i \in DOMAIN workloads :
        /\ workloads[i].workload_id = decision.workload_id
        /\ workloads[i].status = "scheduled"
        /\ workloads[i].region_id = decision.recommended_region
        /\ workloads[i].estimated_cost = decision.estimated_cost
        /\ workloads[i].estimated_emissions = decision.estimated_emissions
        /\ workloads[i].estimated_start_time = decision.estimated_start_time
        /\ workloads[i].estimated_end_time = decision.estimated_end_time}

\* C30: the store holds one workload record for every schedule_workload
\* call that returned a decision (or has committed and is about to) and
\* none for a call that failed; the record of a returned decision has
\* status 'scheduled' and the workload_id, region, estimated cost,
\* emissions, start and end time of the decision, and no other row has its
\* workload_id.
C30_OneRecordPerDecision ==
    /\ Len(workloads) = Cardinality(CommittedCalls)
    /\ \A p \in ReturnedCalls :
          /\ Cardinality(RecordsOf(answer[p])) = 1
          /\ \A i \in DOMAIN workloads :
                workloads[i].workload_id = answer[p].workload_id
                    => i \in RecordsOf(answer[p])

\* a call that failed and a call that returned a decision, no call in
\* progress: one record
C30_Witness ==
    /\ \A p \in Procs : Done(p)
    /\ \E p \in Procs : answer[p].kind = "raised"
    /\ Cardinality(ReturnedCalls) = 1
    /\ Len(workloads) = 1

\* ---------------- claims checked under SpecListing ----------------

\* C27: in every decision schedule_workload returns, the estimated start
\* time is the time of the call plus 5 minutes and the estimated end time
\* is the start time plus estimated_duration_hours, later than the start.
\* Times are exact, in minutes, and durations whole hours: the microsecond
\* resolution of datetime is below what is modelled.
C27_StartAndEndTimes ==
    [][(calls' = calls + 1 /\ response'.kind = "returned") =>
          /\ response'.estimated_start_time = clock + 5
          /\ response'.estimated_end_time
               = response'.estimated_start_time
                 + 60 * request'.estimated_duration_hours
          /\ response'.estimated_end_time > response'.estimated_start_time]_vars

\* a second decision, for a request of two hours
C27_Witness ==
    /\ calls = 2
    /\ ReturnedDecision
    /\ request.estimated_duration_hours = 2
    /\ response.estimated_end_time = response.estimated_start_time + 120

Listed == arg_filters # None

\* the workload_ids of the stored workloads a predicate selects, and those
\* of the summaries returned
StoredIds(Selected(_)) ==
    {workloads[i].workload_id : i \in {j \in DOMAIN workloads : Selected(workloads[j])}}

ListedIds == {listing[i].workload_id : i \in DOMAIN listing}

\* the stored workloads a filter that is present asks for
Asked(w) ==
    /\ arg_filters[1].status # None => w.status = arg_filters[1].status[1]
    /\ arg_filters[1].region_id # None => w.region_id = arg_filters[1].region_id[1]

\* those a filter that is present and not the empty string asks for
AskedNonEmpty(w) ==
    /\ TruthyStr(arg_filters[1].status) => w.status = arg_filters[1].status[1]
    /\ TruthyStr(arg_filters[1].region_id) => w.region_id = arg_filters[1].region_id[1]

\* every stored workload is listed once at most
ListedOnce == Cardinality(ListedIds) = Len(listing)

\* C22 as stated: get_workloads returns exactly the stored workloads with
\* the status asked for, when a status is given, and assigned to the region
\* asked for, when a region is given; all stored workloads with no filter.
C22_ListingMatchesFilters ==
    Listed => (ListedOnce /\ ListedIds = StoredIds(Asked))

\* C22, amended: get_workloads returns exactly the stored workloads with
\* the status asked for, when a non-empty status is given, and assigned to
\* the region asked for, when a non-empty region is given; a filter that is
\* the empty string selects like an absent one.
C22_ListingMatchesNonEmptyFilters ==
    Listed => (ListedOnce /\ ListedIds = StoredIds(AskedNonEmpty))

\* two workloads stored in different regions, listed by status and region:
\* one of them is returned
C22_Witness ==
    /\ Listed
    /\ Len(workloads) = 2
    /\ workloads[1].region_id # workloads[2].region_id
    /\ arg_filters[1].status = Some("scheduled")
    /\ arg_filters[1].region_id = Some("eu-north-1")
    /\ Len(listing) = 1

====
